---- MODULE Spec2Model ----
(***************************************************************************)
(* Model of the sort-merge executor (rust/server/src/executor/order_by.rs)  *)
(* and of the broadcast channel (rust/server/src/task/broadcast_channel.rs).*)
(*                                                                         *)
(* Conventions.  Rust's Option is a sequence of length at most one:         *)
(* None is <<>> and Some(v) is <<v>>.  Vectors are sequences, so the Rust   *)
(* index i is the TLA+ index i + 1: chunk_idx and elem_idx hold the TLA+    *)
(* index, vis_indices keeps the Rust value (the number of entries of the    *)
(* sorted permutation already passed).  An Ordering is -1 (Less), 0 (Equal) *)
(* or 1 (Greater).                                                          *)
(***************************************************************************)
EXTENDS Integers, Sequences, FiniteSets, Bags, TLC

\* ------------------------------------------------------------------ bounds
MaxTotalRows == 3
MaxChunks == MaxTotalRows - 1
K_PROCESSING_WINDOW_SIZE == 2
MaxEndPulls == 2
MaxCalls == MaxTotalRows + MaxEndPulls
MaxFanout == 2
MaxSends == 2
MaxBatch == 2
MaxCycles == 2

\* ------------------------------------------------------------- option type
None == <<>>
Some(v) == <<v>>

\* --------------------------------------------------- columnar batch model
\* The rows the model fills input chunks with, as tuples of Option<i32>, one
\* per column: a null and a value in the first column, two values in the second.
InputRows == { <<None, Some(1)>>, <<Some(1), Some(1)>>, <<Some(1), Some(2)>> }

\* The number of columns of every input chunk.
NumCols == Len(CHOOSE r \in InputRows : TRUE)

\* Column::new(array, data_type): the array and the kind of its ArrayImpl.
Column(arr, kind) == [array |-> arr, kind |-> kind]

\* DataChunk: parallel columns and an optional visibility bitmap.
DataChunk(cols, vis) == [columns |-> cols, visibility |-> vis]

\* DataChunk::cardinality: the number of physical rows.
cardinality(chunk) == IF chunk.columns = <<>> THEN 0 ELSE Len(chunk.columns[1].array)

\* DataChunk::dimension: the number of columns.
dimension(chunk) == Len(chunk.columns)

\* Array::value_at on column col (TLA+ index) of a chunk.
value_at(chunk, col, i) == chunk.columns[col].array[i]

\* Whether row i of a chunk participates (no bitmap: every row does).
IsVisible(chunk, i) == chunk.visibility = None \/ chunk.visibility[1][i]

\* ---------------------------------------------------------- row comparator
Ascending == "Ascending"
Descending == "Descending"

\* OrderPair: an input reference to a column and a direction.
OrderPair(col, dir) == [order |-> col, order_type |-> dir]

\* Native ordering of two nullable values, nulls after every value.
NativeCompare(l, r) ==
  IF l = None /\ r = None THEN 0
  ELSE IF l = None THEN 1
  ELSE IF r = None THEN -1
  ELSE IF l[1] < r[1] THEN -1
  ELSE IF l[1] > r[1] THEN 1
  ELSE 0

\* One key: the native ordering, inverted for a descending key.
compare_value_in_array(l, r, order_type) ==
  IF order_type = Descending THEN 0 - NativeCompare(l, r) ELSE NativeCompare(l, r)

\* Lexicographic composition over the order pairs, first difference decides.
RECURSIVE compare_two_row(_, _, _, _, _)
compare_two_row(order_pairs, lchunk, li, rchunk, ri) ==
  IF order_pairs = <<>> THEN 0
  ELSE LET p == Head(order_pairs)
           res == compare_value_in_array(value_at(lchunk, p.order, li),
                                         value_at(rchunk, p.order, ri),
                                         p.order_type)
       IN IF res # 0 THEN res
          ELSE compare_two_row(Tail(order_pairs), lchunk, li, rchunk, ri)

\* ----------------------------------------------------------- merge heap
\* HeapElem { order_pairs, chunk, chunk_idx, elem_idx }.
HeapElem(order_pairs, chunk, chunk_idx, elem_idx) ==
  [order_pairs |-> order_pairs, chunk |-> chunk,
   chunk_idx |-> chunk_idx, elem_idx |-> elem_idx]

\* Ord for HeapElem: the reverse of the row order, so that the max-heap pops
\* the smallest row first.
HeapElemCmp(a, b) ==
  0 - compare_two_row(a.order_pairs, a.chunk, a.elem_idx, b.chunk, b.elem_idx)

\* a <= b under Ord for HeapElem.
HeapElemLe(a, b) == HeapElemCmp(a, b) <= 0

\* BinaryHeap::sift_up(start, pos) with the hole element elem: parents that are
\* smaller than elem move down, elem lands where the walk stops.  Positions are
\* Rust positions (0-based) into data.
RECURSIVE sift_up(_, _, _, _)
sift_up(data, start, pos, elem) ==
  IF pos > start
  THEN LET parent == (pos - 1) \div 2
       IN IF HeapElemLe(elem, data[parent + 1])
          THEN [data EXCEPT ![pos + 1] = elem]
          ELSE sift_up([data EXCEPT ![pos + 1] = data[parent + 1]], start, parent, elem)
  ELSE [data EXCEPT ![pos + 1] = elem]

\* BinaryHeap::push: append and sift up from the last position.
BinaryHeapPush(data, elem) ==
  sift_up(Append(data, elem), 0, Len(data), elem)

\* BinaryHeap::sift_down_to_bottom(0): the hole walks down along the greater
\* child (the right one on a tie) to a leaf, then the element sifts up again.
RECURSIVE sift_down_walk(_, _, _)
sift_down_walk(data, pos, elem) ==
  LET end == Len(data)
      child == 2 * pos + 1
  IN IF end >= 2 /\ child <= end - 2
     THEN LET c == IF HeapElemLe(data[child + 1], data[child + 2]) THEN child + 1 ELSE child
          IN sift_down_walk([data EXCEPT ![pos + 1] = data[c + 1]], c, elem)
     ELSE IF child = end - 1
          THEN sift_up([data EXCEPT ![pos + 1] = data[child + 1]], 0, child, elem)
          ELSE sift_up(data, 0, pos, elem)

\* BinaryHeap::pop: the last element replaces the root and is sifted down; the
\* old root is returned.  Only called on a non-empty heap.
BinaryHeapPop(data) ==
  LET last == data[Len(data)]
      rest == SubSeq(data, 1, Len(data) - 1)
  IN IF rest = <<>>
     THEN [item |-> last, data |-> rest]
     ELSE [item |-> rest[1], data |-> sift_down_walk(rest, 0, last)]

\* ------------------------------------------------------ upstream operator
\* The child executor: a queue of batches handed out one per execute(), then
\* Done; init() and clean() are recorded, and the execute() calls are counted.
MockExecutor(batches) ==
  [chunks |-> batches, inited |-> FALSE, cleaned |-> FALSE, pulls |-> 0]

\* ------------------------------------------------------- OrderByExecutor
\* The struct as built by new_boxed_executor.
OrderByExecutor(child, order_pairs) ==
  [child |-> child,
   first_execution |-> TRUE,
   sorted_indices |-> <<>>,
   chunks |-> <<>>,
   vis_indices |-> <<>>,
   min_heap |-> <<>>,
   order_pairs |-> order_pairs,
   data_types |-> <<>>]

\* push_heap_for_chunk with the loop stopping one entry early
\* (vis_indices[idx] < cardinality() - 1).
RECURSIVE push_heap_for_chunk_short(_, _)
push_heap_for_chunk_short(self, idx) ==
  IF self.vis_indices[idx] < cardinality(self.chunks[idx]) - 1
  THEN LET row == self.sorted_indices[idx][self.vis_indices[idx] + 1]
           skip == IF self.chunks[idx].visibility # None
                   THEN ~ self.chunks[idx].visibility[1][row]
                   ELSE FALSE
       IN IF ~ skip
          THEN [self EXCEPT
                  !.min_heap = BinaryHeapPush(@, HeapElem(self.order_pairs, self.chunks[idx], idx, row)),
                  !.vis_indices[idx] = @ + 1]
          ELSE push_heap_for_chunk_short([self EXCEPT !.vis_indices[idx] = @ + 1], idx)
  ELSE self

\* push_heap_for_chunk with the visibility bitmap not consulted.
RECURSIVE push_heap_for_chunk_novis(_, _)
push_heap_for_chunk_novis(self, idx) ==
  IF self.vis_indices[idx] < cardinality(self.chunks[idx])
  THEN LET row == self.sorted_indices[idx][self.vis_indices[idx] + 1]
       IN [self EXCEPT
             !.min_heap = BinaryHeapPush(@, HeapElem(self.order_pairs, self.chunks[idx], idx, row)),
             !.vis_indices[idx] = @ + 1]
  ELSE self

\* push_heap_for_chunk: move the cursor of chunk idx over its sorted
\* permutation to the next visible row and push that row, if there is one.
RECURSIVE push_heap_for_chunk(_, _)
push_heap_for_chunk(self, idx) ==
  IF self.vis_indices[idx] < cardinality(self.chunks[idx])
  THEN LET row == self.sorted_indices[idx][self.vis_indices[idx] + 1]
           skip == IF self.chunks[idx].visibility # None
                   THEN ~ self.chunks[idx].visibility[1][row]
                   ELSE FALSE
       IN IF ~ skip
          THEN [self EXCEPT
                  !.min_heap = BinaryHeapPush(@, HeapElem(self.order_pairs, self.chunks[idx], idx, row)),
                  !.vis_indices[idx] = @ + 1]
          ELSE push_heap_for_chunk([self EXCEPT !.vis_indices[idx] = @ + 1], idx)
  ELSE self

\* The stable insertion of row index i into an index list sorted under the
\* order pairs: i goes after every entry that does not compare greater.
RECURSIVE StableInsert(_, _, _, _)
StableInsert(order_pairs, chunk, sorted, i) ==
  IF sorted = <<>> THEN <<i>>
  ELSE IF compare_two_row(order_pairs, chunk, Head(sorted), chunk, i) <= 0
       THEN <<Head(sorted)>> \o StableInsert(order_pairs, chunk, Tail(sorted), i)
       ELSE <<i>> \o sorted

\* index.sort_by over the first n row indices: a stable sort.
RECURSIVE StableSort(_, _, _)
StableSort(order_pairs, chunk, n) ==
  IF n = 0 THEN <<>>
  ELSE StableInsert(order_pairs, chunk, StableSort(order_pairs, chunk, n - 1), n)

\* get_order_index_from with the sort left out.
get_order_index_from_unsorted(self, chunk) == [i \in 1..cardinality(chunk) |-> i]

\* get_order_index_from: the row indices of a chunk sorted by the order pairs.
get_order_index_from(self, chunk) ==
  StableSort(self.order_pairs, chunk, cardinality(chunk))

\* The while-let loop of collect_child_data: drain the child.  Every
\* iteration, and the last test of the loop, is one child.execute().
RECURSIVE DrainChild(_)
DrainChild(self) ==
  IF self.child.chunks # <<>>
  THEN LET chunk == Head(self.child.chunks)
       IN DrainChild([self EXCEPT
                        !.child.chunks = Tail(@),
                        !.child.pulls = @ + 1,
                        !.sorted_indices = Append(@, get_order_index_from(self, chunk)),
                        !.chunks = Append(@, chunk)])
  ELSE [self EXCEPT !.child.pulls = @ + 1]

\* The seeding loop pushing two candidates per chunk.
RECURSIVE SeedHeap_twice(_, _)
SeedHeap_twice(self, idx) ==
  IF idx > Len(self.chunks) THEN self
  ELSE SeedHeap_twice(push_heap_for_chunk(push_heap_for_chunk(self, idx), idx), idx + 1)

\* The for loop of collect_child_data: seed the heap from chunks idx..len.
RECURSIVE SeedHeap(_, _)
SeedHeap(self, idx) ==
  IF idx > Len(self.chunks) THEN self
  ELSE SeedHeap(push_heap_for_chunk(self, idx), idx + 1)

\* vis_indices = vec![0; chunks.len()]: every cursor back at the start.
ResetCursors(self) ==
  [self EXCEPT !.vis_indices = [i \in 1..Len(self.chunks) |-> 0]]

\* collect_child_data: drain, reset the cursors, seed the heap.
collect_child_data(self) == SeedHeap(ResetCursors(DrainChild(self)), 1)

\* fill_data_types: the column kinds of chunks[0].  Indexing chunks[0] of an
\* empty vector panics; the caller tests CanFillDataTypes first.
CanFillDataTypes(self) == self.chunks # <<>>

fill_data_types(self) ==
  [self EXCEPT !.data_types =
     [i \in 1..dimension(self.chunks[1]) |-> self.chunks[1].columns[i].kind]]

\* The builder loop with every builder reading column 0.
RECURSIVE AppendRow_column0(_, _, _, _)
AppendRow_column0(self, builders, top, idx) ==
  IF idx > Len(builders) THEN [ok |-> TRUE, builders |-> builders]
  ELSE LET chunk == self.chunks[top.chunk_idx]
       IN IF idx > dimension(chunk) \/ chunk.columns[idx].kind # builders[idx].kind
          THEN [ok |-> FALSE, builders |-> builders]
          ELSE AppendRow_column0(self,
                         [builders EXCEPT ![idx].array = Append(@, value_at(chunk, 1, top.elem_idx))],
                         top, idx + 1)

\* The builder loop with the kinds of builder and array not compared.
RECURSIVE AppendRow_unchecked(_, _, _, _)
AppendRow_unchecked(self, builders, top, idx) ==
  IF idx > Len(builders) THEN [ok |-> TRUE, builders |-> builders]
  ELSE LET chunk == self.chunks[top.chunk_idx]
       IN IF idx > dimension(chunk)
          THEN [ok |-> FALSE, builders |-> builders]
          ELSE AppendRow_unchecked(self,
                         [builders EXCEPT ![idx].array = Append(@, value_at(chunk, idx, top.elem_idx))],
                         top, idx + 1)

\* The ExecutorResult values and the two failures of a pull.
Done == [kind |-> "Done"]
Batch(chunk) == [kind |-> "Batch", chunk |-> chunk]
InternalError == [kind |-> "Err"]
Panic == [kind |-> "Panic"]
NoResult == [kind |-> "NoResult"]

\* The for loop over the builders for one popped element: every builder idx
\* appends value_at(elem_idx) of column idx of the element's chunk.  ok is
\* FALSE when the column is missing or its kind is not the builder's.
RECURSIVE AppendRow(_, _, _, _)
AppendRow(self, builders, top, idx) ==
  IF idx > Len(builders) THEN [ok |-> TRUE, builders |-> builders]
  ELSE LET chunk == self.chunks[top.chunk_idx]
       IN IF idx > dimension(chunk) \/ chunk.columns[idx].kind # builders[idx].kind
          THEN [ok |-> FALSE, builders |-> builders]
          ELSE AppendRow(self,
                         [builders EXCEPT ![idx].array = Append(@, value_at(chunk, idx, top.elem_idx))],
                         top, idx + 1)

\* The while loop of execute: pop, copy the row, refill from the same chunk.
\* popped lists (chunk_idx, elem_idx) of the rows copied by this call.
\* MergeLoop tests the loop condition, MergePopped is the body once the top is
\* popped, MergeCopied what follows the copy of the row (a: its outcome).
RECURSIVE MergeLoop(_, _, _, _)
RECURSIVE MergePopped(_, _, _, _, _)
RECURSIVE MergeCopied(_, _, _, _, _)
MergeCopied(self, top, a, chunk_size, popped) ==
  IF ~ a.ok
  THEN [self |-> self, ok |-> FALSE, builders |-> a.builders,
        chunk_size |-> chunk_size, popped |-> popped]
  ELSE MergeLoop(push_heap_for_chunk(self, top.chunk_idx), a.builders,
                 chunk_size + 1, Append(popped, <<top.chunk_idx, top.elem_idx>>))

MergePopped(self, p, builders, chunk_size, popped) ==
  MergeCopied([self EXCEPT !.min_heap = p.data], p.item,
              AppendRow([self EXCEPT !.min_heap = p.data], builders, p.item, 1),
              chunk_size, popped)

\* The loop condition letting one row past the window
\* (chunk_size <= K_PROCESSING_WINDOW_SIZE).
MergeLoop_over(self, builders, chunk_size, popped) ==
  IF self.min_heap # <<>> /\ chunk_size <= K_PROCESSING_WINDOW_SIZE
  THEN MergePopped(self, BinaryHeapPop(self.min_heap), builders, chunk_size, popped)
  ELSE [self |-> self, ok |-> TRUE, builders |-> builders,
        chunk_size |-> chunk_size, popped |-> popped]

MergeLoop(self, builders, chunk_size, popped) ==
  IF self.min_heap # <<>> /\ chunk_size < K_PROCESSING_WINDOW_SIZE
  THEN MergePopped(self, BinaryHeapPop(self.min_heap), builders, chunk_size, popped)
  ELSE [self |-> self, ok |-> TRUE, builders |-> builders,
        chunk_size |-> chunk_size, popped |-> popped]

\* The first-execution block with first_execution left set.
FirstExecutionFill_again(c) ==
  IF CanFillDataTypes(c)
  THEN [self |-> fill_data_types(c), panic |-> FALSE]
  ELSE [self |-> c, panic |-> TRUE]

\* The first-execution block of execute, given the state c that
\* collect_child_data left.
FirstExecutionFill(c) ==
  IF CanFillDataTypes(c)
  THEN [self |-> [fill_data_types(c) EXCEPT !.first_execution = FALSE], panic |-> FALSE]
  ELSE [self |-> c, panic |-> TRUE]

\* The first-execution block of execute.
FirstExecution(self) ==
  IF self.first_execution
  THEN FirstExecutionFill(collect_child_data(self))
  ELSE [self |-> self, panic |-> FALSE]

\* create_array_builder for every data type: empty builders.
NewBuilders(self) == [i \in 1..Len(self.data_types) |-> Column(<<>>, self.data_types[i])]

\* The end of execute with first_execution set again when the stream ends.
ExecuteResult_rearm(m) ==
  IF ~ m.ok THEN [self |-> m.self, result |-> InternalError, popped |-> <<>>]
  ELSE IF m.chunk_size = 0
       THEN [self |-> [m.self EXCEPT !.first_execution = TRUE], result |-> Done, popped |-> <<>>]
  ELSE [self |-> m.self,
        result |-> Batch(DataChunk(m.builders, None)),
        popped |-> m.popped]

\* The end of execute, given the outcome m of the merge loop: the error, Done
\* when nothing was copied, or the batch built from the builders.
ExecuteResult(m) ==
  IF ~ m.ok THEN [self |-> m.self, result |-> InternalError, popped |-> <<>>]
  ELSE IF m.chunk_size = 0 THEN [self |-> m.self, result |-> Done, popped |-> <<>>]
  ELSE [self |-> m.self,
        result |-> Batch(DataChunk(m.builders, None)),
        popped |-> m.popped]

\* execute after the first-execution block left f.
ExecuteMerge(f) ==
  IF f.panic THEN [self |-> f.self, result |-> Panic, popped |-> <<>>]
  ELSE ExecuteResult(MergeLoop(f.self, NewBuilders(f.self), 0, <<>>))

\* execute: the state after the call, its result and the rows it copied.
execute(self) == ExecuteMerge(FirstExecution(self))

\* init: first_execution is set again and the child is initialised.
init(self) == [self EXCEPT !.first_execution = TRUE, !.child.inited = TRUE]

\* clean: the child is cleaned.
clean(self) == [self EXCEPT !.child.cleaned = TRUE]

\* ------------------------------------------------------------------ state
VARIABLES
  exec,        \* the OrderByExecutor (child included)
  input,       \* the batches the upstream was built with, in arrival order
  result,      \* what the last execute() returned
  outputs,     \* the batches returned so far, in emission order
  provenance,  \* (chunk_idx, elem_idx) of every row returned so far
  calls,       \* the number of execute() calls made
  cleaned,     \* clean() has been called
  cycle,       \* the number of init() calls that followed earlier pulls
  exec2,       \* a second OrderByExecutor, fed the same batches in another order
  result2,     \* what its last execute() returned
  outputs2,    \* the batches it returned so far
  tx_alive,    \* the BroadcastSender has not been dropped
  channels,    \* per receiver: the mpsc queue and whether the receiver lives
  sending,     \* the send() in progress: its chunk and the next sender index
  sent,        \* the chunks passed to send(), in call order
  send_results,\* the result of every finished send(), in call order
  dropped_before, \* per send(): a receiver was already dropped at the call
  received,    \* per receiver: what its recv() calls returned, in order
  enqueued,    \* per receiver: the chunks put on its queue, in order
  reached      \* per send(): the receivers whose queue got its chunk

obVars == <<exec, input, result, outputs, provenance, calls, cleaned, cycle>>
arVars == <<exec2, result2, outputs2>>
bcVars == <<tx_alive, channels, sending, sent, send_results, dropped_before, received, enqueued, reached>>
vars == <<obVars, arVars, bcVars>>

\* ----------------------------------------------------------------- inputs
Int32 == "Int32"

\* The visibility of a chunk of n rows: no bitmap, or a bitmap of one bit per
\* row that hides at least one row.
Visibilities(n) ==
  {None} \cup {Some(b) : b \in {m \in [1..n -> BOOLEAN] : \E i \in 1..n : ~ m[i]}}

\* Every Int32 chunk of n rows and NumCols columns: column c holds the c-th
\* value of every row.
ChunksOfSize(n) ==
  { DataChunk([c \in 1..NumCols |-> Column([i \in 1..n |-> rows[i][c]], Int32)], vis) :
      rows \in [1..n -> InputRows], vis \in Visibilities(n) }

\* A second array kind of the closed set the builders match on.
Int64 == "Int64"

\* Chunks of n rows whose last column is an Int32 or an Int64 array.
TypedChunksOfSize(n) ==
  ChunksOfSize(n) \cup
    { [chunk EXCEPT !.columns[NumCols].kind = Int64] : chunk \in ChunksOfSize(n) }

RECURSIVE SumSeq(_)
SumSeq(s) == IF s = <<>> THEN 0 ELSE Head(s) + SumSeq(Tail(s))

\* The number of physical rows of a batch sequence.
TotalRows(batches) == SumSeq([k \in 1..Len(batches) |-> cardinality(batches[k])])

\* The OrderKey sequences the model runs the executor with.
OrderPairSeqs ==
  { <<OrderPair(2, Ascending)>>,
    <<OrderPair(1, Descending)>>,
    <<OrderPair(2, Ascending), OrderPair(1, Ascending)>> }

\* ------------------------------------------------------------ state machine
\* ---- the sort-merge executor pulled by its task
InitOrderBy ==
  /\ input = <<>>
  /\ \E op \in OrderPairSeqs : exec = OrderByExecutor(MockExecutor(<<>>), op)
  /\ result = NoResult
  /\ outputs = <<>>
  /\ provenance = <<>>
  /\ calls = 0
  /\ cleaned = FALSE
  /\ cycle = 0

\* No second executor.
ArrivalIdle ==
  /\ exec2 = <<>>
  /\ result2 = NoResult
  /\ outputs2 = <<>>

\* No broadcast channel.
BroadcastIdle ==
  /\ tx_alive = FALSE
  /\ channels = <<>>
  /\ sending = None
  /\ sent = <<>>
  /\ send_results = <<>>
  /\ dropped_before = <<>>
  /\ received = <<>>
  /\ enqueued = <<>>
  /\ reached = <<>>

Init == InitOrderBy /\ ArrivalIdle /\ BroadcastIdle

\* The executor can still be called: it has not panicked and is not cleaned.
Usable == result # Panic /\ ~ cleaned

\* The upstream is still being filled: the task has not called the executor.
Filling == calls = 0 /\ ~ exec.child.inited /\ ~ cleaned

\* MockExecutor::add: one more batch for the upstream to deliver.
AddBatch ==
  /\ Filling
  /\ Len(input) < MaxChunks
  /\ \E n \in 0..(MaxTotalRows - TotalRows(input)) :
       \E chunk \in ChunksOfSize(n) :
         /\ input' = Append(input, chunk)
         /\ exec' = [exec EXCEPT !.child.chunks = Append(@, chunk)]
  /\ UNCHANGED <<result, outputs, provenance, calls, cleaned, cycle, arVars, bcVars>>

\* Executor::init, called by the task before the first pull.
Initialize ==
  /\ Usable
  /\ calls = 0
  /\ ~ exec.child.inited
  /\ exec' = init(exec)
  /\ UNCHANGED <<input, result, outputs, provenance, calls, cleaned, cycle, arVars, bcVars>>

\* Executor::execute: one pull, after init(); the task pulls at most
\* MaxEndPulls times once the stream has ended.
Execute ==
  /\ Usable
  /\ exec.child.inited
  /\ calls < MaxCalls
  /\ calls - Len(outputs) < MaxEndPulls
  /\ \E r \in {execute(exec)} :
        /\ exec' = r.self
        /\ result' = r.result
        /\ outputs' = IF r.result.kind = "Batch" THEN Append(outputs, r.result.chunk) ELSE outputs
        /\ provenance' = provenance \o r.popped
  /\ calls' = calls + 1
  /\ UNCHANGED <<input, cleaned, cycle, arVars, bcVars>>

\* Executor::clean, the last call of the task: after the stream has ended or a
\* pull has failed.
Clean ==
  /\ Usable
  /\ result \in {Done, InternalError}
  /\ exec' = clean(exec)
  /\ cleaned' = TRUE
  /\ UNCHANGED <<input, result, outputs, provenance, calls, cycle, arVars, bcVars>>

Next == AddBatch \/ Initialize \/ Execute \/ Clean

Spec == Init /\ [][Next]_vars

\* ---- the executor initialised again between pull cycles
\* MockExecutor::add before the first pull of a cycle; the executor holds, or
\* is about to be given, at most MaxChunks batches and MaxTotalRows rows.
AddBatchCycle ==
  /\ calls = 0
  /\ ~ cleaned
  /\ Len(exec.chunks) + Len(input) < MaxChunks
  /\ \E n \in 0..(MaxTotalRows - TotalRows(exec.chunks) - TotalRows(input)) :
       \E chunk \in ChunksOfSize(n) :
         /\ input' = Append(input, chunk)
         /\ exec' = [exec EXCEPT !.child.chunks = Append(@, chunk)]
  /\ UNCHANGED <<result, outputs, provenance, calls, cleaned, cycle, arVars, bcVars>>

\* Executor::init called again after earlier pulls: a new cycle starts, and
\* input, outputs and provenance record that cycle only.
Reinitialize ==
  /\ Usable
  /\ calls >= 1
  /\ cycle < MaxCycles - 1
  /\ cycle' = cycle + 1
  /\ exec' = init(exec)
  /\ input' = <<>>
  /\ result' = NoResult
  /\ outputs' = <<>>
  /\ provenance' = <<>>
  /\ calls' = 0
  /\ UNCHANGED <<cleaned, arVars, bcVars>>

NextReinit == AddBatchCycle \/ Initialize \/ Execute \/ Reinitialize

SpecReinit == Init /\ [][NextReinit]_vars

\* ---- the executor over batches whose column types may differ
\* The order pairs refer to the first column, which is Int32 in every batch.
InitTyped ==
  /\ Init
  /\ exec.order_pairs = <<OrderPair(1, Descending)>>

\* MockExecutor::add of a batch whose last column may be of another kind.
AddBatchTyped ==
  /\ Filling
  /\ Len(input) < MaxChunks
  /\ \E n \in 0..(MaxTotalRows - TotalRows(input)) :
       \E chunk \in TypedChunksOfSize(n) :
         /\ input' = Append(input, chunk)
         /\ exec' = [exec EXCEPT !.child.chunks = Append(@, chunk)]
  /\ UNCHANGED <<result, outputs, provenance, calls, cleaned, cycle, arVars, bcVars>>

\* Executor::execute pulled by a task that stops at the first error: an
\* internal error aborts the operator tree.
ExecuteChecked == result # InternalError /\ Execute

NextTyped == AddBatchTyped \/ Initialize \/ ExecuteChecked \/ Clean

SpecTyped == InitTyped /\ [][NextTyped]_vars

\* ---- two executors over the same batches in different arrival orders
\* seq with x put at position k.
InsertAt(seq, k, x) == SubSeq(seq, 1, k - 1) \o <<x>> \o SubSeq(seq, k, Len(seq))

InitArrival ==
  /\ InitOrderBy
  /\ exec2 = exec
  /\ result2 = NoResult
  /\ outputs2 = <<>>
  /\ BroadcastIdle

\* One more batch for both upstreams: the first delivers it last, the second
\* at any place among the batches it already holds.
AddBatchBoth ==
  /\ Filling
  /\ Len(input) < MaxChunks
  /\ \E n \in 0..(MaxTotalRows - TotalRows(input)) :
       \E chunk \in ChunksOfSize(n) :
         /\ input' = Append(input, chunk)
         /\ exec' = [exec EXCEPT !.child.chunks = Append(@, chunk)]
         /\ \E k \in 1..(Len(input) + 1) :
              exec2' = [exec2 EXCEPT !.child.chunks = InsertAt(@, k, chunk)]
  /\ UNCHANGED <<result, outputs, provenance, calls, cleaned, cycle, result2, outputs2, bcVars>>

\* One pull of each executor; the caller stops pulling once both have reported
\* the end of their stream.
ExecuteBoth ==
  /\ result # Panic /\ result2 # Panic
  /\ calls < MaxCalls
  /\ ~(result = Done /\ result2 = Done)
  /\ \E r \in {execute(exec)}, r2 \in {execute(exec2)} :
        /\ exec' = r.self
        /\ result' = r.result
        /\ outputs' = IF r.result.kind = "Batch" THEN Append(outputs, r.result.chunk) ELSE outputs
        /\ provenance' = provenance \o r.popped
        /\ exec2' = r2.self
        /\ result2' = r2.result
        /\ outputs2' = IF r2.result.kind = "Batch" THEN Append(outputs2, r2.result.chunk) ELSE outputs2
  /\ calls' = calls + 1
  /\ UNCHANGED <<input, cleaned, cycle, bcVars>>

NextArrival == AddBatchBoth \/ ExecuteBoth

SpecArrival == InitArrival /\ [][NextArrival]_vars

\* ---- the broadcast channel between a producer and its consumers
\* mpsc::channel(): an empty queue whose receiver lives.
Channel == [queue |-> <<>>, rx_alive |-> TRUE]

\* new_broadcast_channel: output_count channels, one sender half and one
\* receiver half each.
new_broadcast_channel(output_count) == [i \in 1..output_count |-> Channel]

\* The closure sending on senders[0] whatever the sender it is given.
sender_send_first(chans, idx, chunk) ==
  IF chans[idx].rx_alive
  THEN [ok |-> TRUE, channels |-> [chans EXCEPT ![1].queue = Append(@, chunk)]]
  ELSE [ok |-> FALSE, channels |-> chans]

\* The closure with the error of a closed channel discarded.
sender_send_ignore(chans, idx, chunk) ==
  IF chans[idx].rx_alive
  THEN [ok |-> TRUE, channels |-> [chans EXCEPT ![idx].queue = Append(@, chunk)]]
  ELSE [ok |-> TRUE, channels |-> chans]

\* The closure of BroadcastSender::send on senders[idx]: mpsc's send puts a
\* clone of the chunk on the queue, or fails when the receiver is gone.
sender_send(chans, idx, chunk) ==
  IF chans[idx].rx_alive
  THEN [ok |-> TRUE, channels |-> [chans EXCEPT ![idx].queue = Append(@, chunk)]]
  ELSE [ok |-> FALSE, channels |-> chans]

\* A receive that never blocks (try_recv in place of recv).
recv_ready_nonblocking(chan, sender_alive) == TRUE

\* A receive that never notices that the sender is gone.
recv_ready_queued(chan, sender_alive) == chan.queue # <<>>

\* mpsc's recv returns (rather than blocks) when a chunk is queued or the
\* sender is gone.
recv_ready(chan, sender_alive) == chan.queue # <<>> \/ ~ sender_alive

\* BroadcastReceiver::recv on a ready channel: the next chunk, or None.
recv(chan) == IF chan.queue # <<>> THEN Some(Head(chan.queue)) ELSE None

\* The chunks the model sends.
Batches == 1..MaxBatch

InitBroadcast ==
  /\ InitOrderBy /\ exec.order_pairs = <<OrderPair(2, Ascending)>>
  /\ ArrivalIdle
  /\ tx_alive = TRUE
  /\ \E n \in 1..MaxFanout :
       /\ channels = new_broadcast_channel(n)
       /\ received = [i \in 1..n |-> <<>>]
       /\ enqueued = [i \in 1..n |-> <<>>]
  /\ sending = None
  /\ sent = <<>>
  /\ send_results = <<>>
  /\ dropped_before = <<>>
  /\ reached = <<>>

\* The producer calls send(chunk).
SendBegin ==
  /\ tx_alive
  /\ sending = None
  /\ Len(sent) < MaxSends
  /\ \E chunk \in Batches :
       /\ sending' = Some([chunk |-> chunk, idx |-> 1])
       /\ sent' = Append(sent, chunk)
  /\ dropped_before' = Append(dropped_before, \E i \in 1..Len(channels) : ~ channels[i].rx_alive)
  /\ reached' = Append(reached, {})
  /\ UNCHANGED <<tx_alive, channels, send_results, received, enqueued, obVars, arVars>>

\* The loop going on to the later senders after a failure (for_each in place
\* of try_for_each), the error returned at the end.
SendStep_foreach ==
  /\ sending # None
  /\ \E cur \in {sending[1]} : \E r \in {sender_send(channels, cur.idx, cur.chunk)} :
        /\ channels' = r.channels
        /\ enqueued' = IF r.ok THEN [enqueued EXCEPT ![cur.idx] = Append(@, cur.chunk)]
                       ELSE enqueued
        /\ reached' = IF r.ok THEN [reached EXCEPT ![Len(sent)] = @ \cup {cur.idx}]
                      ELSE reached
        /\ \E failed \in {~ r.ok \/ "failed" \in DOMAIN cur} :
             IF cur.idx = Len(channels)
             THEN /\ sending' = None
                  /\ send_results' = Append(send_results, IF failed THEN "Err" ELSE "Ok")
             ELSE /\ sending' = Some(IF failed
                                     THEN [chunk |-> cur.chunk, idx |-> cur.idx + 1, failed |-> TRUE]
                                     ELSE [chunk |-> cur.chunk, idx |-> cur.idx + 1])
                  /\ UNCHANGED send_results
  /\ UNCHANGED <<tx_alive, sent, dropped_before, received, obVars, arVars>>

\* One iteration of try_for_each: the next sender sends; the first failure
\* ends the call with the error, the last success ends it with Ok.
SendStep ==
  /\ sending # None
  /\ \E cur \in {sending[1]} : \E r \in {sender_send(channels, cur.idx, cur.chunk)} :
        /\ channels' = r.channels
        /\ enqueued' = IF r.ok THEN [enqueued EXCEPT ![cur.idx] = Append(@, cur.chunk)]
                       ELSE enqueued
        /\ reached' = IF r.ok THEN [reached EXCEPT ![Len(sent)] = @ \cup {cur.idx}]
                      ELSE reached
        /\ IF ~ r.ok
           THEN /\ sending' = None
                /\ send_results' = Append(send_results, "Err")
           ELSE IF cur.idx = Len(channels)
           THEN /\ sending' = None
                /\ send_results' = Append(send_results, "Ok")
           ELSE /\ sending' = Some([cur EXCEPT !.idx = @ + 1])
                /\ UNCHANGED send_results
  /\ UNCHANGED <<tx_alive, sent, dropped_before, received, obVars, arVars>>

\* Consumer i calls recv() and it returns.
Recv(i) ==
  /\ channels[i].rx_alive
  /\ Len(received[i]) < MaxSends + 2
  /\ recv_ready(channels[i], tx_alive)
  /\ received' = [received EXCEPT ![i] = Append(@, recv(channels[i]))]
  /\ channels' = [channels EXCEPT ![i].queue = IF @ = <<>> THEN @ ELSE Tail(@)]
  /\ UNCHANGED <<tx_alive, sending, sent, send_results, dropped_before, enqueued, reached, obVars, arVars>>

\* The producer drops the BroadcastSender, and with it every mpsc sender.
DropSender ==
  /\ tx_alive
  /\ sending = None
  /\ tx_alive' = FALSE
  /\ UNCHANGED <<channels, sending, sent, send_results, dropped_before, received, enqueued, reached, obVars, arVars>>

\* Consumer i drops its receiver; what is still queued is discarded.
DropReceiver(i) ==
  /\ channels[i].rx_alive
  /\ channels' = [channels EXCEPT ![i] = [queue |-> <<>>, rx_alive |-> FALSE]]
  /\ UNCHANGED <<tx_alive, sending, sent, send_results, dropped_before, received, enqueued, reached, obVars, arVars>>

NextBroadcast ==
  \/ SendBegin
  \/ SendStep
  \/ \E i \in 1..Len(channels) : Recv(i)
  \/ DropSender
  \/ \E i \in 1..Len(channels) : DropReceiver(i)

SpecBroadcast == InitBroadcast /\ [][NextBroadcast]_vars

\* The producer calls send() with its next chunk: the chunks go round Batches.
SendBeginNext ==
  /\ SendBegin
  /\ sent' = Append(sent, 1 + (Len(sent) % MaxBatch))

NextBroadcastLive ==
  \/ SendBeginNext
  \/ SendStep
  \/ \E i \in 1..Len(channels) : Recv(i)
  \/ DropSender
  \/ \E i \in 1..Len(channels) : DropReceiver(i)

\* Fair scheduling of the threads: the producer inside send() goes on to the
\* next sender, and a consumer blocked in recv() returns once it can.
SpecBroadcastLive ==
  /\ InitBroadcast
  /\ [][NextBroadcastLive]_vars
  /\ WF_vars(SendStep)
  /\ \A i \in 1..MaxFanout : WF_vars(i <= Len(channels) /\ Recv(i))

\* ------------------------------------------------- vocabulary of the claims
\* The positions (batch, row) of the rows of a batch sequence, in order.
RECURSIVE RowPositions(_, _)
RowPositions(batches, k) ==
  IF k > Len(batches) THEN <<>>
  ELSE [i \in 1..cardinality(batches[k]) |-> <<k, i>>] \o RowPositions(batches, k + 1)

\* Row i of a chunk as the tuple of its column values.
RowOf(chunk, i) == [c \in 1..dimension(chunk) |-> value_at(chunk, c, i)]

\* The rows of a batch sequence, in order.
FlatRows(batches) ==
  LET pos == RowPositions(batches, 1)
  IN [n \in 1..Len(pos) |-> RowOf(batches[pos[n][1]], pos[n][2])]

\* The positions of the visible rows of the input.
VisiblePositions ==
  UNION { { <<c, e>> : e \in { i \in 1..cardinality(input[c]) : IsVisible(input[c], i) } } :
            c \in 1..Len(input) }

\* The bag of the entries of a sequence.
BagOfSeq(seq) ==
  LET range == { seq[n] : n \in 1..Len(seq) }
  IN [r \in range |-> Cardinality({ n \in 1..Len(seq) : seq[n] = r })]

\* The visible rows of the input, as a sequence over the visible positions in
\* arrival order.
VisibleInputRows ==
  LET pos == RowPositions(input, 1)
      vis == SelectSeq(pos, LAMBDA p : IsVisible(input[p[1]], p[2]))
  IN [n \in 1..Len(vis) |-> RowOf(input[vis[n][1]], vis[n][2])]

\* Two rows of the input compare equal under the executor's order pairs.
KeysTie(p, q) ==
  compare_two_row(exec.order_pairs, input[p[1]], p[2], input[q[1]], q[2]) = 0

\* The number of execute() calls that returned Done so far (no failed call).
DoneCalls == calls - Len(outputs)

\* C1: read in emission order, the returned rows never decrease under the
\* order pairs: a row never compares greater than a row returned after it.
TotalOrder ==
  \A pos \in {RowPositions(outputs, 1)} :
    \A a, b \in 1..Len(pos) :
      a < b => compare_two_row(exec.order_pairs, outputs[pos[a][1]], pos[a][2],
                               outputs[pos[b][1]], pos[b][2]) <= 0

\* C1 witness: two input batches arriving out of order were merged into more
\* than one output batch, and the pull reached stream end.
TotalOrderWitness ==
  /\ result = Done
  /\ Len(input) >= 2
  /\ Len(outputs) >= 2
  /\ cardinality(input[1]) >= 1 /\ cardinality(input[2]) >= 1
  /\ input[1].visibility = None /\ input[2].visibility = None
  /\ compare_two_row(exec.order_pairs, input[1], 1, input[2], 1) > 0

\* C2: at stream end the returned rows are exactly the visible input rows,
\* each once: as many rows as visible input rows, none dropped, none repeated.
CardinalityConservation ==
  result = Done =>
    \A visible \in {VisiblePositions} :
      /\ TotalRows(outputs) = Cardinality(visible)
      /\ Len(provenance) = Cardinality(visible)
      /\ { provenance[n] : n \in 1..Len(provenance) } = visible

\* C2 witness: stream end after three visible rows from two batches, one of
\* which also holds an invisible row.
CardinalityWitness ==
  /\ result = Done
  /\ Len(input) = 2
  /\ Cardinality(VisiblePositions) = 2
  /\ TotalRows(input) = 3

\* C3: no invisible row is a heap candidate or a returned row, and every
\* returned row is one of the recorded visible rows.
InvisibleNeverEmitted ==
  /\ \A n \in 1..Len(exec.min_heap) :
       IsVisible(input[exec.min_heap[n].chunk_idx], exec.min_heap[n].elem_idx)
  /\ \A n \in 1..Len(provenance) : IsVisible(input[provenance[n][1]], provenance[n][2])
  /\ TotalRows(outputs) = Len(provenance)

\* C3 witness: stream end on an input whose first batch is all invisible and
\* whose second batch hides the row that sorts first.
InvisibleWitness ==
  /\ result = Done
  /\ Len(input) = 2
  /\ cardinality(input[1]) >= 1
  /\ \A e \in 1..cardinality(input[1]) : ~ IsVisible(input[1], e)
  /\ cardinality(input[2]) = 2
  /\ ~ IsVisible(input[2], exec.sorted_indices[2][1])
  /\ IsVisible(input[2], exec.sorted_indices[2][2])
  /\ outputs # <<>>

\* C4: two returned rows whose keys tie come out in input order: earlier batch
\* first, and within a batch the smaller row index first.
Stability ==
  \A a, b \in 1..Len(provenance) :
    (a < b /\ KeysTie(provenance[a], provenance[b])) =>
      \/ provenance[a][1] < provenance[b][1]
      \/ provenance[a][1] = provenance[b][1] /\ provenance[a][2] < provenance[b][2]

\* C5: an execute() that follows one that returned Done returns Done.
IdempotentTermination ==
  [][(result = Done /\ calls' = calls + 1) => result' = Done]_vars

\* C5 witness: Done was returned twice after a batch had been returned.
IdempotentTerminationWitness ==
  /\ result = Done
  /\ outputs # <<>>
  /\ DoneCalls >= 2

\* C9: every returned row equals, column by column, one visible input row, and
\* at stream end the bag of returned rows is the bag of visible input rows.
WholeRows ==
  \A rows \in {FlatRows(outputs)} :
    /\ \A k \in 1..Len(outputs) : dimension(outputs[k]) = NumCols
    /\ Len(rows) = Len(provenance)
    /\ \A n \in 1..Len(provenance) :
         /\ IsVisible(input[provenance[n][1]], provenance[n][2])
         /\ rows[n] = RowOf(input[provenance[n][1]], provenance[n][2])
    /\ result = Done => BagOfSeq(rows) = BagOfSeq(VisibleInputRows)

\* C9 witness: stream end after returning rows whose two columns differ, from
\* an input holding two different rows.
WholeRowsWitness ==
  /\ result = Done
  /\ \E rows \in {FlatRows(outputs)} :
       \E n, m \in 1..Len(rows) : rows[n][1] # rows[n][2] /\ rows[m] # rows[n]

\* C10 as stated: at stream end the two executors returned the same row
\* sequence.
ArrivalOrderIndependent ==
  (result = Done /\ result2 = Done) => FlatRows(outputs) = FlatRows(outputs2)

\* C10 amended: at stream end the two row sequences have the same length and
\* the rows at the same position compare equal under the order pairs.
ArrivalOrderIndependentKeys ==
  (result = Done /\ result2 = Done) =>
    \A pos \in {RowPositions(outputs, 1)}, pos2 \in {RowPositions(outputs2, 1)} :
      /\ Len(pos) = Len(pos2)
      /\ \A n \in 1..Len(pos) :
           compare_two_row(exec.order_pairs, outputs[pos[n][1]], pos[n][2],
                           outputs2[pos2[n][1]], pos2[n][2]) = 0

\* C10 witness: both executors reached stream end after returning rows with
\* different keys, and their row sequences differ.
ArrivalOrderWitness ==
  /\ result = Done /\ result2 = Done
  /\ FlatRows(outputs) # FlatRows(outputs2)
  /\ \E a, b \in 1..Len(provenance) : ~ KeysTie(provenance[a], provenance[b])

\* The chunks receiver i got from recv(), in order.
Delivered(i) ==
  LET got == SelectSeq(received[i], LAMBDA r : r # None)
  IN [n \in 1..Len(got) |-> got[n][1]]

\* Receiver i was told the stream ended.
SawStreamEnd(i) == \E n \in 1..Len(received[i]) : received[i][n] = None

\* No receiver has been dropped.
AllReceiversAlive == \A i \in 1..Len(channels) : channels[i].rx_alive

\* The chunks passed to send() that the send in progress has already handed
\* to sender i.
HandedTo(i) ==
  IF sending # None /\ sending[1].idx <= i THEN SubSeq(sent, 1, Len(sent) - 1) ELSE sent

\* C6: while every receiver lives, what a receiver got followed by what is
\* queued for it is the sequence passed to send(), in order and once each, and
\* a receiver that saw stream end got that whole sequence.
BroadcastFidelity ==
  AllReceiversAlive =>
    \A i \in 1..Len(channels) :
      /\ Delivered(i) \o channels[i].queue = HandedTo(i)
      /\ SawStreamEnd(i) => Delivered(i) = sent

\* C6 witness: two receivers both got two different chunks in send order and
\* then stream end.
BroadcastFidelityWitness ==
  /\ Len(channels) >= 2
  /\ AllReceiversAlive
  /\ Len(sent) = 2 /\ sent[1] # sent[2]
  /\ \A i \in 1..Len(channels) : SawStreamEnd(i) /\ Delivered(i) = sent

\* C7: a receiver saw stream end only if the sender is dropped, nothing is
\* queued for it, and it got every chunk that was queued for it.
StreamEndOnlyAfterDrain ==
  \A i \in 1..Len(channels) :
    SawStreamEnd(i) =>
      /\ ~ tx_alive
      /\ channels[i].queue = <<>>
      /\ Delivered(i) = enqueued[i]

\* C7 witness: a receiver saw stream end after the sender was dropped while a
\* chunk was still queued for it.
StreamEndWitness ==
  \E i \in 1..Len(channels) :
    /\ SawStreamEnd(i)
    /\ Len(Delivered(i)) >= 1
    /\ Len(received[i]) >= 3

\* C8: a send() called after a receiver was dropped returned an error, and
\* while no receiver has been dropped every send() returned Ok.
SendFailsIffReceiverDropped ==
  /\ \A k \in 1..Len(send_results) : dropped_before[k] => send_results[k] = "Err"
  /\ AllReceiversAlive => \A k \in 1..Len(send_results) : send_results[k] = "Ok"

\* C8 witness: one send() returned Ok with every receiver alive, and a later
\* one, called after the last receiver was dropped, returned an error.
SendFailsWitness ==
  /\ Len(channels) >= 2
  /\ Len(send_results) = 2
  /\ send_results[1] = "Ok" /\ ~ dropped_before[1]
  /\ send_results[2] = "Err" /\ dropped_before[2]
  /\ channels[1].rx_alive /\ ~ channels[Len(channels)].rx_alive

\* C11: once init() has been called and before the next pull, the executor
\* holds no batches, no sorted permutations, no cursors and no heap candidate,
\* and the rows returned in a cycle are among the visible rows the upstream
\* was given in that cycle.
InitResets ==
  /\ (exec.child.inited /\ calls = 0) =>
        /\ exec.chunks = <<>>
        /\ exec.sorted_indices = <<>>
        /\ exec.vis_indices = <<>>
        /\ exec.min_heap = <<>>
  /\ \A rows \in {FlatRows(outputs)}, given \in {VisibleInputRows} :
        \A n \in 1..Len(rows) :
          Cardinality({ m \in 1..Len(rows) : rows[m] = rows[n] })
            <= Cardinality({ m \in 1..Len(given) : given[m] = rows[n] })

\* C12: the first execute() over an upstream that yields no visible row (no
\* batch at all, or only batches without a visible row) returns Done: no
\* batch, no error, no abort.
EmptyUpstreamEndsNormally ==
  (calls = 1 /\ VisiblePositions = {}) => result = Done

\* C13: every returned batch has between 1 and K_PROCESSING_WINDOW_SIZE rows,
\* and a batch that is not the last one (another batch follows it, or the
\* heap still holds a candidate) has exactly K_PROCESSING_WINDOW_SIZE rows.
BatchWindow ==
  \A k \in 1..Len(outputs) :
    /\ cardinality(outputs[k]) >= 1
    /\ cardinality(outputs[k]) <= K_PROCESSING_WINDOW_SIZE
    /\ (k < Len(outputs) \/ exec.min_heap # <<>>) =>
          cardinality(outputs[k]) = K_PROCESSING_WINDOW_SIZE

\* C13 witness: stream end after a full batch followed by a last, partial one.
BatchWindowWitness ==
  /\ result = Done
  /\ Len(outputs) = 2
  /\ cardinality(outputs[1]) = K_PROCESSING_WINDOW_SIZE
  /\ cardinality(outputs[2]) < K_PROCESSING_WINDOW_SIZE

\* Input batch c has a column whose kind is not the builder's.
Mismatched(c) ==
  \E i \in 1..Len(exec.data_types) : input[c].columns[i].kind # exec.data_types[i]

\* C14: a row of a batch with a mismatched column is never returned; the rows
\* returned so far never compare greater than a visible row not yet returned
\* (no returned batch skips a row); stream end is reported only when every
\* visible row was returned; a pull that meets a mismatched row therefore
\* ends with the internal error.
MismatchAborts ==
  /\ \A n \in 1..Len(provenance) : ~ Mismatched(provenance[n][1])
  /\ TotalRows(outputs) = Len(provenance)
  /\ \A emitted \in {{ provenance[n] : n \in 1..Len(provenance) }} :
        /\ \A q \in emitted : \A p \in VisiblePositions \ emitted :
              compare_two_row(exec.order_pairs, input[q[1]], q[2], input[p[1]], p[2]) <= 0
        /\ result = Done => emitted = VisiblePositions

\* C14 witness: after a batch was returned, a pull met a visible row of a
\* batch with a mismatched column and ended with the internal error.
MismatchAbortsWitness ==
  /\ result = InternalError
  /\ outputs # <<>>
  /\ \E p \in VisiblePositions : Mismatched(p[1])

\* C15: once clean() has returned, the upstream has been cleaned and the
\* executor holds no batches, no sorted permutations, no cursors and no heap
\* candidate.
CleanDropsBuffers ==
  cleaned =>
    /\ exec.child.cleaned
    /\ exec.chunks = <<>>
    /\ exec.sorted_indices = <<>>
    /\ exec.vis_indices = <<>>
    /\ exec.min_heap = <<>>

\* Receiver i exists and at least n chunks were put on its queue.
Enqueued(i, n) == i <= Len(channels) /\ Len(enqueued[i]) >= n

\* There is no receiver i, or it was dropped.
Gone(i) == i > Len(channels) \/ ~ channels[i].rx_alive

\* Receiver i is gone, or recv() returned it at least n chunks.
GotOrGone(i, n) == Gone(i) \/ Len(Delivered(i)) >= n

\* C16: under fair scheduling, the n-th chunk put on the queue of a receiver
\* is eventually returned by its recv() (unless the receiver is dropped), and
\* once the sender is dropped a receiver is eventually told the stream ended
\* (unless it is dropped).
RecvLive ==
  \A i \in 1..MaxFanout :
    /\ \A n \in 1..MaxSends : Enqueued(i, n) ~> GotOrGone(i, n)
    /\ (i <= Len(channels) /\ ~ tx_alive) ~> (Gone(i) \/ SawStreamEnd(i))

\* C16 witness: a receiver got every chunk of MaxSends sends and then stream
\* end.
RecvLiveWitness ==
  \E i \in 1..Len(channels) :
    /\ Len(enqueued[i]) = MaxSends
    /\ Delivered(i) = enqueued[i]
    /\ SawStreamEnd(i)

\* ceil(N / K_PROCESSING_WINDOW_SIZE) for the N visible rows of the input.
ExpectedBatches ==
  (Cardinality(VisiblePositions) + K_PROCESSING_WINDOW_SIZE - 1) \div K_PROCESSING_WINDOW_SIZE

\* C17: the first ceil(N / K_PROCESSING_WINDOW_SIZE) execute() calls each
\* return a batch and every later call returns Done.
MergeTerminates ==
  calls >= 1 =>
    /\ Len(outputs) = IF calls < ExpectedBatches THEN calls ELSE ExpectedBatches
    /\ calls > ExpectedBatches => result = Done

\* The rows returned so far, as a set of (chunk_idx, elem_idx).
Emitted == { provenance[n] : n \in 1..Len(provenance) }

\* The heap candidates of retained batch c.
CandidatesOf(c) == { n \in 1..Len(exec.min_heap) : exec.min_heap[n].chunk_idx = c }

\* C18: between pulls, once the upstream is materialized, every retained
\* batch has at most one heap candidate and a cursor within its cardinality;
\* the candidate is a visible row not yet returned, the cursor points just
\* past it in the batch's sorted permutation, and every visible row before it
\* in that permutation has been returned; a batch without a candidate has no
\* visible row left to return.
HeapInvariant ==
  ~ exec.first_execution =>
    /\ Len(exec.min_heap) <= Len(exec.chunks)
    /\ \A c \in 1..Len(exec.chunks) :
         /\ Cardinality(CandidatesOf(c)) <= 1
         /\ exec.vis_indices[c] <= cardinality(exec.chunks[c])
         /\ CandidatesOf(c) = {} =>
              \A i \in 1..cardinality(exec.chunks[c]) :
                IsVisible(exec.chunks[c], i) => <<c, i>> \in Emitted
    /\ \A n \in 1..Len(exec.min_heap) :
         \A e \in {exec.min_heap[n]} : \A v \in {exec.vis_indices[e.chunk_idx]} :
           /\ e.chunk = exec.chunks[e.chunk_idx]
           /\ v >= 1
           /\ exec.sorted_indices[e.chunk_idx][v] = e.elem_idx
           /\ IsVisible(e.chunk, e.elem_idx)
           /\ <<e.chunk_idx, e.elem_idx>> \notin Emitted
           /\ \A k \in 1..(v - 1) :
                \A i \in {exec.sorted_indices[e.chunk_idx][k]} :
                  IsVisible(e.chunk, i) => <<e.chunk_idx, i>> \in Emitted

\* C18 witness: after a returned batch the heap holds one candidate, of one of
\* two retained batches, which is not the first row of its sorted permutation.
HeapInvariantWitness ==
  /\ ~ exec.first_execution
  /\ Len(outputs) = 1
  /\ Len(exec.chunks) = 2
  /\ Len(exec.min_heap) = 1
  /\ exec.vis_indices[exec.min_heap[1].chunk_idx] >= 2

\* C19: before the first execute() the upstream has not been pulled and
\* nothing was returned; from the first execute() on, the upstream has been
\* pulled exactly once per batch and once more for its end-of-stream signal,
\* it holds no batch any more, and the executor retains the batches in
\* arrival order: later pulls do not pull the upstream.
MaterializedOnce ==
  /\ calls = 0 => (exec.child.pulls = 0 /\ outputs = <<>>)
  /\ calls >= 1 =>
       /\ exec.child.pulls = Len(input) + 1
       /\ exec.child.chunks = <<>>
       /\ exec.chunks = input

\* C19 witness: a third execute() after two batches were returned from an
\* upstream of two batches.
MaterializedOnceWitness ==
  /\ calls >= 3
  /\ Len(input) = 2
  /\ Len(outputs) = 2
  /\ exec.child.pulls = 3

\* The chunks passed to send() whose call reached receiver i, from the k-th
\* send on, in call order.
RECURSIVE ReachedSends(_, _)
ReachedSends(i, k) ==
  IF k > Len(sent) THEN <<>>
  ELSE (IF i \in reached[k] THEN <<sent[k]>> ELSE <<>>) \o ReachedSends(i, k + 1)

\* C20: a send() that returned an error stopped at a dropped receiver i after
\* putting its chunk on the queue of every receiver below i and of none from
\* i on, a send() that returned Ok reached every receiver, and what a live
\* receiver got followed by what is queued for it is, in call order, the
\* chunks of the sends that reached it.
PartialDelivery ==
  /\ \A k \in 1..Len(send_results) :
       IF send_results[k] = "Err"
       THEN \E i \in 1..Len(channels) :
              ~ channels[i].rx_alive /\ reached[k] = 1..(i - 1)
       ELSE reached[k] = 1..Len(channels)
  /\ \A i \in 1..Len(channels) :
       channels[i].rx_alive => Delivered(i) \o channels[i].queue = ReachedSends(i, 1)

\* C20 witness: a send() failed at the second receiver after its chunk was
\* put on the queue of the first, which lives and holds a chunk the second
\* never got.
PartialDeliveryWitness ==
  /\ Len(channels) >= 2
  /\ channels[1].rx_alive
  /\ \E k \in 1..Len(send_results) : send_results[k] = "Err" /\ reached[k] = {1}
  /\ Len(enqueued[1]) > Len(enqueued[2])

====
